---- MODULE Spec2Model ----
(***************************************************************************)
(* Golden Flop poker table program (Anchor/Solana):                        *)
(*   programs/goldenflop/src/lib.rs   instruction handlers and accounts    *)
(*   programs/goldenflop/src/state.rs Table, PlayerSlot, Session           *)
(* Each instruction is one atomic step: the accounts are validated, the    *)
(* handler runs on the loaded accounts, and the accounts are written back  *)
(* only when the handler returns Ok.                                       *)
(***************************************************************************)
EXTENDS Integers, Sequences, FiniteSets, TLC

\* ------------------------------------------------------------------ bounds
\* u64 is checked at a reduced width: values are taken modulo 2^U64Bits.
U64Bits == 2
\* the clock runs from 0 to MaxTime
MaxTime == 1
\* buy_in arguments range over 0..MaxBuyInArg, Bet/Raise amounts over 0..MaxAmountArg
MaxBuyInArg == 2
MaxAmountArg == 2
\* in Next and NextSession nobody joins once this many seats are taken (NextFill
\* fills the table up to MAX_PLAYERS)
MaxSeated == 2

\* --------------------------------------------------------------- constants
MAX_PLAYERS == 9

U64Mod == 2 ^ U64Bits

\* ------------------------------------------------------------------ values
Default == "default"                      \* Pubkey::default()
Authorities == {"A1", "A2"}               \* main wallets
EphemeralKeys == {"K1", "K2"}             \* session keys
Pubkeys == Authorities \cup EphemeralKeys
Creators == {"A1"}
SessionAuthorities == {"A1"}

None == <<>>                              \* Option::None, a closed / absent account
Some(x) == <<x>>                          \* Option::Some(x), a live account
Unwrap(o) == o[1]

Seats == 0 .. (MAX_PLAYERS - 1)

\* TableState
WaitingForPlayers == "WaitingForPlayers"
BetweenHands == "BetweenHands"
InHand == "InHand"

\* GameAction
Fold == [kind |-> "Fold", amount |-> 0]
Call == [kind |-> "Call", amount |-> 0]
Bet(amount) == [kind |-> "Bet", amount |-> amount]
Raise(amount) == [kind |-> "Raise", amount |-> amount]
AllIn == [kind |-> "AllIn", amount |-> 0]
GameActions == {Fold, Call, AllIn} \cup {Bet(a) : a \in 0 .. MaxAmountArg}
                 \cup {Raise(a) : a \in 0 .. MaxAmountArg}

\* PlayerSlot
PlayerSlot(authority, session_key, chips, in_hand) ==
  [authority |-> authority, session_key |-> session_key, chips |-> chips, in_hand |-> in_hand]

\* program-derived addresses
TablePda(creator) == "table:" \o creator
SessionPda(authority, table) == "session:" \o authority \o ":" \o table
TableAddrs == {TablePda(c) : c \in Creators}
SessionAddrs == {SessionPda(a, t) : a \in Pubkeys, t \in TableAddrs}
AuthoritySessions == {SessionPda(a, t) : a \in Authorities, t \in TableAddrs}

Ok == "Ok"

VARIABLES
  tables,           \* table address -> Option<Table>
  sessions,         \* session address -> Option<Session>
  now,              \* Clock::get()?.unix_timestamp
  last              \* the last instruction that returned Ok

vars == <<tables, sessions, now, last>>

\* ------------------------------------------------------ state.rs: Table
RECURSIVE FindLoop(_, _, _)
FindLoop(players, authority, i) ==
  IF i = MAX_PLAYERS THEN -1
  ELSE IF players[i] # None /\ Unwrap(players[i]).authority = authority THEN i
  ELSE FindLoop(players, authority, i + 1)

\* find_player that returns the last matching seat instead of the first
find_player_Last(table, authority) ==
  LET hits == {i \in Seats : table.players[i] # None /\ Unwrap(table.players[i]).authority = authority}
  IN IF hits = {} THEN -1 ELSE CHOOSE i \in hits : \A j \in hits : j <= i

\* Table::find_player: index of the first occupied seat of authority, -1 for PlayerNotFound
find_player(table, authority) == FindLoop(table.players, authority, 0)

RECURSIVE CompactLoop(_, _, _)
CompactLoop(players, read, write) ==
  IF read = MAX_PLAYERS THEN [players |-> players, write |-> write]
  ELSE IF players[read] # None
       THEN CompactLoop(IF write # read
                        THEN [players EXCEPT ![write] = players[read], ![read] = None]
                        ELSE players,
                        read + 1, write + 1)
       ELSE CompactLoop(players, read + 1, write)

ClearTail(players, write) ==
  [i \in Seats |-> IF i >= write THEN None ELSE players[i]]

\* compact_players that counts the seats but leaves them where they are
compact_players_NoMove(table) ==
  [table EXCEPT !.player_count = Cardinality({i \in Seats : table.players[i] # None})]

\* Table::compact_players
compact_players(table) ==
  LET r == CompactLoop(table.players, 0, 0)
  IN [table EXCEPT !.players = ClearTail(r.players, r.write), !.player_count = r.write]

\* create_table that opens the table in the InHand state
NewTable_InHand(creator, small_blind, big_blind, min_buy_in, max_buy_in) ==
  [creator |-> creator, small_blind |-> small_blind, big_blind |-> big_blind,
   min_buy_in |-> min_buy_in, max_buy_in |-> max_buy_in, pot |-> 0,
   state |-> InHand, deck_seed |-> 0, player_count |-> 0,
   players |-> [i \in Seats |-> None]]

\* Table as written by create_table
NewTable(creator, small_blind, big_blind, min_buy_in, max_buy_in) ==
  [creator |-> creator, small_blind |-> small_blind, big_blind |-> big_blind,
   min_buy_in |-> min_buy_in, max_buy_in |-> max_buy_in, pot |-> 0,
   state |-> WaitingForPlayers, deck_seed |-> 0, player_count |-> 0,
   players |-> [i \in Seats |-> None]]

\* a Session account right after init: all fields zero
ZeroSession ==
  [authority |-> Default, ephemeral_signer |-> Default, table |-> Default,
   created_at |-> 0, expiry |-> 0]

\* ------------------------------------------------------------ u64 arithmetic
\* a += b on u64: the sum overflows; the build either panics or wraps
Overflows(a, b) == a + b >= U64Mod
WrappingAdd(a, b) == (a + b) % U64Mod

\* ------------------------------------------------------- lib.rs: handlers
\* A handler result: err is Ok or the error returned; table / session are the
\* accounts as the handler left them when it returned.
Result(err, table, session) == [err |-> err, table |-> table, session |-> session]

\* create_table
create_table(creator, small_blind, big_blind, min_buy_in, max_buy_in) ==
  Result(Ok, NewTable(creator, small_blind, big_blind, min_buy_in, max_buy_in), None)

\* join_table that forgets player_count += 1
join_table_NoCount(table, player, buy_in_lamports) ==
  IF ~(table.state = WaitingForPlayers \/ table.state = BetweenHands)
  THEN Result("InvalidTableState", table, None)
  ELSE IF ~(table.player_count < MAX_PLAYERS)
  THEN Result("TableFull", table, None)
  ELSE IF ~(buy_in_lamports >= table.min_buy_in /\ buy_in_lamports <= table.max_buy_in)
  THEN Result("InvalidBuyIn", table, None)
  ELSE Result(Ok,
              [table EXCEPT !.players[table.player_count] =
                                Some(PlayerSlot(player, Default, buy_in_lamports, TRUE))],
              None)

\* join_table with the buy-in range test joined by "or"
join_table_OrRange(table, player, buy_in_lamports) ==
  IF ~(table.state = WaitingForPlayers \/ table.state = BetweenHands)
  THEN Result("InvalidTableState", table, None)
  ELSE IF ~(table.player_count < MAX_PLAYERS)
  THEN Result("TableFull", table, None)
  ELSE IF ~(buy_in_lamports >= table.min_buy_in \/ buy_in_lamports <= table.max_buy_in)
  THEN Result("InvalidBuyIn", table, None)
  ELSE Result(Ok,
              [table EXCEPT !.players[table.player_count] =
                                Some(PlayerSlot(player, Default, buy_in_lamports, TRUE)),
                            !.player_count = @ + 1],
              None)

\* join_table that always writes seat 0
join_table_SeatZero(table, player, buy_in_lamports) ==
  IF ~(table.state = WaitingForPlayers \/ table.state = BetweenHands)
  THEN Result("InvalidTableState", table, None)
  ELSE IF ~(table.player_count < MAX_PLAYERS)
  THEN Result("TableFull", table, None)
  ELSE IF ~(buy_in_lamports >= table.min_buy_in /\ buy_in_lamports <= table.max_buy_in)
  THEN Result("InvalidBuyIn", table, None)
  ELSE Result(Ok,
              [table EXCEPT !.players[0] =
                                Some(PlayerSlot(player, Default, buy_in_lamports, TRUE)),
                            !.player_count = @ + 1],
              None)

\* join_table
join_table(table, player, buy_in_lamports) ==
  IF ~(table.state = WaitingForPlayers \/ table.state = BetweenHands)
  THEN Result("InvalidTableState", table, None)
  ELSE IF ~(table.player_count < MAX_PLAYERS)
  THEN Result("TableFull", table, None)
  ELSE IF ~(buy_in_lamports >= table.min_buy_in /\ buy_in_lamports <= table.max_buy_in)
  THEN Result("InvalidBuyIn", table, None)
  ELSE LET seat == table.player_count
       IN Result(Ok,
                 [table EXCEPT !.players[seat] =
                                   Some(PlayerSlot(player, Default, buy_in_lamports, TRUE)),
                               !.player_count = @ + 1],
                 None)

\* create_session that accepts an expiry equal to the current time
create_session_AtNow(table, table_key, session, authority, ephemeral_signer, expiry_ts, clock) ==
  IF ~(expiry_ts >= clock)
  THEN Result("SessionExpired", table, session)
  ELSE LET written == [session EXCEPT !.authority = authority,
                                      !.ephemeral_signer = ephemeral_signer,
                                      !.table = table_key,
                                      !.created_at = clock,
                                      !.expiry = expiry_ts]
           player_index == find_player(table, authority)
       IN IF player_index = -1
          THEN Result("PlayerNotFound", table, written)
          ELSE Result(Ok,
                      [table EXCEPT !.players[player_index] =
                         Some([Unwrap(@) EXCEPT !.session_key = ephemeral_signer])],
                      written)

\* create_session; session is the freshly initialised account
create_session(table, table_key, session, authority, ephemeral_signer, expiry_ts, clock) ==
  IF ~(expiry_ts > clock)
  THEN Result("SessionExpired", table, session)
  ELSE LET written == [session EXCEPT !.authority = authority,
                                      !.ephemeral_signer = ephemeral_signer,
                                      !.table = table_key,
                                      !.created_at = clock,
                                      !.expiry = expiry_ts]
           player_index == find_player(table, authority)
       IN IF player_index = -1
          THEN Result("PlayerNotFound", table, written)
          ELSE Result(Ok,
                      [table EXCEPT !.players[player_index] =
                         Some([Unwrap(@) EXCEPT !.session_key = ephemeral_signer])],
                      written)

\* table.pot += amount
PotAdd(table, amount, checks) ==
  IF Overflows(table.pot, amount) /\ checks
  THEN Result("Panic", table, None)
  ELSE Result(Ok, [table EXCEPT !.pot = WrappingAdd(@, amount)], None)

SetSlot(table, i, slot) == [table EXCEPT !.players[i] = Some(slot)]

\* a session still accepted at the very second it expires
NotExpired_Inclusive(clock, expiry) == clock <= expiry

\* require!(clock.unix_timestamp < session.expiry, SessionExpired)
NotExpired(clock, expiry) == clock < expiry

\* action whose Bet and Raise move the chips before they test the amount
action_LateChipsCheck(table, session, signer, game_action, clock, checks) ==
  IF ~NotExpired(clock, session.expiry)
  THEN Result("SessionExpired", table, None)
  ELSE IF ~(signer = session.ephemeral_signer)
  THEN Result("InvalidSigner", table, None)
  ELSE LET player_index == find_player(table, session.authority)
       IN IF player_index = -1
          THEN Result("PlayerNotFound", table, None)
          ELSE LET slot == Unwrap(table.players[player_index])
               IN IF ~slot.in_hand
                  THEN Result("NotInHand", table, None)
                  ELSE CASE game_action.kind = "Fold" ->
                              Result(Ok, SetSlot(table, player_index,
                                                 [slot EXCEPT !.in_hand = FALSE]), None)
                         [] game_action.kind = "Call" ->
                              PotAdd(table, table.big_blind, checks)
                         [] game_action.kind \in {"Bet", "Raise"} ->
                              LET moved ==
                                    PotAdd(SetSlot(table, player_index,
                                                   [slot EXCEPT !.chips =
                                                      (@ + U64Mod - game_action.amount) % U64Mod]),
                                           game_action.amount, checks)
                              IN IF ~(game_action.amount <= slot.chips)
                                 THEN Result("InsufficientChips", moved.table, None)
                                 ELSE moved
                         [] game_action.kind = "AllIn" ->
                              LET added == PotAdd(table, slot.chips, checks)
                              IN IF added.err # Ok
                                 THEN added
                                 ELSE Result(Ok, SetSlot(added.table, player_index,
                                                         [slot EXCEPT !.chips = 0]), None)

\* action that lets a folded seat act
action_FoldedActs(table, session, signer, game_action, clock, checks) ==
  IF ~NotExpired(clock, session.expiry)
  THEN Result("SessionExpired", table, None)
  ELSE IF ~(signer = session.ephemeral_signer)
  THEN Result("InvalidSigner", table, None)
  ELSE LET player_index == find_player(table, session.authority)
       IN IF player_index = -1
          THEN Result("PlayerNotFound", table, None)
          ELSE LET slot == Unwrap(table.players[player_index])
               IN CASE game_action.kind = "Fold" ->
                         Result(Ok, SetSlot(table, player_index,
                                            [slot EXCEPT !.in_hand = FALSE]), None)
                    [] game_action.kind = "Call" ->
                         PotAdd(table, table.big_blind, checks)
                    [] game_action.kind \in {"Bet", "Raise"} ->
                         IF ~(game_action.amount <= slot.chips)
                         THEN Result("InsufficientChips", table, None)
                         ELSE PotAdd(SetSlot(table, player_index,
                                             [slot EXCEPT !.chips = @ - game_action.amount]),
                                     game_action.amount, checks)
                    [] game_action.kind = "AllIn" ->
                         LET added == PotAdd(table, slot.chips, checks)
                         IN IF added.err # Ok
                            THEN added
                            ELSE Result(Ok, SetSlot(added.table, player_index,
                                                    [slot EXCEPT !.chips = 0]), None)

\* action that tests the signer before the expiry
action_SignerFirst(table, session, signer, game_action, clock, checks) ==
  IF ~(signer = session.ephemeral_signer)
  THEN Result("InvalidSigner", table, None)
  ELSE IF ~NotExpired(clock, session.expiry)
  THEN Result("SessionExpired", table, None)
  ELSE LET player_index == find_player(table, session.authority)
       IN IF player_index = -1
          THEN Result("PlayerNotFound", table, None)
          ELSE LET slot == Unwrap(table.players[player_index])
               IN IF ~slot.in_hand
                  THEN Result("NotInHand", table, None)
                  ELSE CASE game_action.kind = "Fold" ->
                              Result(Ok, SetSlot(table, player_index,
                                                 [slot EXCEPT !.in_hand = FALSE]), None)
                         [] game_action.kind = "Call" ->
                              PotAdd(table, table.big_blind, checks)
                         [] game_action.kind \in {"Bet", "Raise"} ->
                              IF ~(game_action.amount <= slot.chips)
                              THEN Result("InsufficientChips", table, None)
                              ELSE PotAdd(SetSlot(table, player_index,
                                                  [slot EXCEPT !.chips = @ - game_action.amount]),
                                          game_action.amount, checks)
                         [] game_action.kind = "AllIn" ->
                              LET added == PotAdd(table, slot.chips, checks)
                              IN IF added.err # Ok
                                 THEN added
                                 ELSE Result(Ok, SetSlot(added.table, player_index,
                                                         [slot EXCEPT !.chips = 0]), None)

\* action
action(table, session, signer, game_action, clock, checks) ==
  IF ~NotExpired(clock, session.expiry)
  THEN Result("SessionExpired", table, None)
  ELSE IF ~(signer = session.ephemeral_signer)
  THEN Result("InvalidSigner", table, None)
  ELSE LET player_index == find_player(table, session.authority)
       IN IF player_index = -1
          THEN Result("PlayerNotFound", table, None)
          ELSE LET slot == Unwrap(table.players[player_index])
               IN IF ~slot.in_hand
                  THEN Result("NotInHand", table, None)
                  ELSE CASE game_action.kind = "Fold" ->
                              Result(Ok, SetSlot(table, player_index,
                                                 [slot EXCEPT !.in_hand = FALSE]), None)
                         [] game_action.kind = "Call" ->
                              PotAdd(table, table.big_blind, checks)
                         [] game_action.kind \in {"Bet", "Raise"} ->
                              IF ~(game_action.amount <= slot.chips)
                              THEN Result("InsufficientChips", table, None)
                              ELSE PotAdd(SetSlot(table, player_index,
                                                  [slot EXCEPT !.chips = @ - game_action.amount]),
                                          game_action.amount, checks)
                         [] game_action.kind = "AllIn" ->
                              LET added == PotAdd(table, slot.chips, checks)
                              IN IF added.err # Ok
                                 THEN added
                                 ELSE Result(Ok, SetSlot(added.table, player_index,
                                                         [slot EXCEPT !.chips = 0]), None)

\* leave_table
leave_table(table, player) ==
  LET player_index == find_player(table, player)
  IN IF player_index = -1
     THEN Result("PlayerNotFound", table, None)
     ELSE Result(Ok, compact_players([table EXCEPT !.players[player_index] = None]), None)

\* revoke_session open to any caller
revoke_session_NoCheck(session, authority) == Result(Ok, None, session)

\* revoke_session
revoke_session(session, authority) ==
  IF ~(authority = session.authority)
  THEN Result("InvalidSigner", None, session)
  ELSE Result(Ok, None, session)

\* ------------------------------------------- lib.rs: instructions (accounts)
\* An instruction validates its accounts, runs its handler on them and writes
\* them back only when the handler returned Ok; an instruction that returns an
\* error leaves every account as it was.  XxxOutcome is the result of sending
\* the instruction in the current state: its error and the stores after it.
\* spec.md section 5: all of an operation's effects are committed or none are,
\* enforced by the execution environment and not by the program
Commit(store, addr, err, account) ==
  IF err = Ok THEN [store EXCEPT ![addr] = account] ELSE store

Outcome(err, tbls, sess) == [err |-> err, tables |-> tbls, sessions |-> sess]

\* #[account(init)]: the address must not hold an account yet
InitCheck(store, addr) == IF store[addr] # None THEN "AccountAlreadyInUse" ELSE Ok

\* Account<'info, T>: the address must hold an account
LoadCheck(store, addr) == IF store[addr] = None THEN "AccountNotInitialized" ELSE Ok

\* session account addressed by the ephemeral key instead of the authority
CreateSessionSeeds_ByKey(authority, ephemeral_signer, table_key) ==
  SessionPda(ephemeral_signer, table_key)

\* seeds of the session account in CreateSession
CreateSessionSeeds(authority, ephemeral_signer, table_key) == SessionPda(authority, table_key)

\* seeds constraint of Action: the session account is the one of (session.authority, table)
ActionSeedsCheck(session, s, t) ==
  IF s # SessionPda(session.authority, t) THEN "ConstraintSeeds" ELSE Ok

\* seeds constraint of RevokeSession
RevokeSeedsCheck(session, s) ==
  IF s # SessionPda(session.authority, session.table) THEN "ConstraintSeeds" ELSE Ok

\* a revoke that leaves the account open
CloseAccount_Keep(session) == Some(session)

\* #[account(close = authority)]: the account is removed once the handler returned Ok
CloseAccount(session) == None

CreateTableOutcome(creator, small_blind, big_blind, min_buy_in, max_buy_in) ==
  LET t == TablePda(creator)
      pre == InitCheck(tables, t)
  IN IF pre # Ok
     THEN Outcome(pre, tables, sessions)
     ELSE LET r == create_table(creator, small_blind, big_blind, min_buy_in, max_buy_in)
          IN Outcome(r.err, Commit(tables, t, r.err, Some(r.table)), sessions)

JoinTableOutcome(player, t, buy_in_lamports) ==
  LET pre == LoadCheck(tables, t)
  IN IF pre # Ok
     THEN Outcome(pre, tables, sessions)
     ELSE LET r == join_table(Unwrap(tables[t]), player, buy_in_lamports)
          IN Outcome(r.err, Commit(tables, t, r.err, Some(r.table)), sessions)

CreateSessionOutcome(authority, t, ephemeral_signer, expiry_ts) ==
  LET s == CreateSessionSeeds(authority, ephemeral_signer, t)
      pre == IF LoadCheck(tables, t) # Ok THEN LoadCheck(tables, t) ELSE InitCheck(sessions, s)
  IN IF pre # Ok
     THEN Outcome(pre, tables, sessions)
     ELSE LET r == create_session(Unwrap(tables[t]), t, ZeroSession, authority,
                                  ephemeral_signer, expiry_ts, now)
          IN Outcome(r.err, Commit(tables, t, r.err, Some(r.table)),
                     Commit(sessions, s, r.err, Some(r.session)))

\* overflow_checks is the build profile: TRUE = a u64 overflow panics, FALSE = it wraps
ActionOutcome(signer, t, s, game_action, overflow_checks) ==
  LET pre == IF LoadCheck(tables, t) # Ok THEN LoadCheck(tables, t)
             ELSE IF LoadCheck(sessions, s) # Ok THEN LoadCheck(sessions, s)
             ELSE ActionSeedsCheck(Unwrap(sessions[s]), s, t)
  IN IF pre # Ok
     THEN Outcome(pre, tables, sessions)
     ELSE LET r == action(Unwrap(tables[t]), Unwrap(sessions[s]), signer, game_action,
                          now, overflow_checks)
          IN Outcome(r.err, Commit(tables, t, r.err, Some(r.table)), sessions)

LeaveTableOutcome(player, t) ==
  LET pre == LoadCheck(tables, t)
  IN IF pre # Ok
     THEN Outcome(pre, tables, sessions)
     ELSE LET r == leave_table(Unwrap(tables[t]), player)
          IN Outcome(r.err, Commit(tables, t, r.err, Some(r.table)), sessions)

RevokeSessionOutcome(authority, s) ==
  LET pre == IF LoadCheck(sessions, s) # Ok THEN LoadCheck(sessions, s)
             ELSE RevokeSeedsCheck(Unwrap(sessions[s]), s)
  IN IF pre # Ok
     THEN Outcome(pre, tables, sessions)
     ELSE LET r == revoke_session(Unwrap(sessions[s]), authority)
          IN Outcome(r.err, tables, Commit(sessions, s, r.err, CloseAccount(r.session)))

\* One instruction as a step.  last names the last instruction that returned
\* Ok; a failed instruction changes nothing at all.
Apply(op, o) ==
  /\ tables' = o.tables
  /\ sessions' = o.sessions
  /\ last' = IF o.err = Ok THEN op ELSE last
  /\ UNCHANGED now

CreateTable(creator, small_blind, big_blind, min_buy_in, max_buy_in) ==
  Apply("create_table",
        CreateTableOutcome(creator, small_blind, big_blind, min_buy_in, max_buy_in))

JoinTable(player, t, buy_in_lamports) ==
  Apply("join_table", JoinTableOutcome(player, t, buy_in_lamports))

CreateSession(authority, t, ephemeral_signer, expiry_ts) ==
  Apply("create_session", CreateSessionOutcome(authority, t, ephemeral_signer, expiry_ts))

Action(signer, t, s, game_action, overflow_checks) ==
  Apply("action", ActionOutcome(signer, t, s, game_action, overflow_checks))

LeaveTable(player, t) ==
  Apply("leave_table", LeaveTableOutcome(player, t))

RevokeSession(authority, s) ==
  Apply("revoke_session", RevokeSessionOutcome(authority, s))

\* the clock advances between instructions
Tick ==
  /\ now < MaxTime
  /\ now' = now + 1
  /\ last' = "tick"
  /\ UNCHANGED <<tables, sessions>>

\* ------------------------------------------------------------ specification
Init ==
  /\ tables = [t \in TableAddrs |-> None]
  /\ sessions = [s \in SessionAddrs |-> None]
  /\ now = 0
  /\ last = "deploy"

\* create_table arguments
TableArgs == {[small_blind |-> 1, big_blind |-> 2, min_buy_in |-> 1, max_buy_in |-> 1],
              [small_blind |-> 1, big_blind |-> 2, min_buy_in |-> 2, max_buy_in |-> 1]}
BuyInArgs == 0 .. MaxBuyInArg
ExpiryArgs == 0 .. MaxTime

SeatedCount(t) == IF tables[t] = None THEN 0 ELSE Unwrap(tables[t]).player_count

DoCreateTable ==
  \E c \in Creators, a \in TableArgs :
    CreateTable(c, a.small_blind, a.big_blind, a.min_buy_in, a.max_buy_in)
DoJoinTable ==
  \E p \in Authorities, t \in TableAddrs, b \in BuyInArgs :
    SeatedCount(t) < MaxSeated /\ JoinTable(p, t, b)
\* in Next one authority asks for sessions (NextSession lets every authority)
DoCreateSession ==
  \E a \in SessionAuthorities, t \in TableAddrs, k \in EphemeralKeys, e \in ExpiryArgs :
    CreateSession(a, t, k, e)
DoAction ==
  \E k \in EphemeralKeys, t \in TableAddrs, s \in AuthoritySessions, g \in GameActions,
     checks \in BOOLEAN :
    Action(k, t, s, g, checks)
DoLeaveTable == \E p \in Authorities, t \in TableAddrs : LeaveTable(p, t)
DoRevokeSession == \E a \in Authorities, s \in AuthoritySessions : RevokeSession(a, s)

Next ==
  \/ DoCreateTable
  \/ DoJoinTable
  \/ DoCreateSession
  \/ DoAction
  \/ DoLeaveTable
  \/ DoRevokeSession
  \/ Tick

Spec == Init /\ [][Next]_vars

\* the roster alone, up to a full table: create_table, join_table and leave_table
DoJoinTableAny ==
  \E p \in Authorities, t \in TableAddrs, b \in BuyInArgs : JoinTable(p, t, b)

NextFill ==
  \/ DoCreateTable
  \/ DoJoinTableAny
  \/ DoLeaveTable

SpecFill == Init /\ [][NextFill]_vars

\* seats and sessions without play: every instruction but action
DoCreateSessionAny ==
  \E a \in Authorities, t \in TableAddrs, k \in EphemeralKeys, e \in ExpiryArgs :
    CreateSession(a, t, k, e)

NextSession ==
  \/ DoCreateTable
  \/ DoJoinTable
  \/ DoCreateSessionAny
  \/ DoLeaveTable
  \/ DoRevokeSession
  \/ Tick

SpecSession == Init /\ [][NextSession]_vars

\* one authority at a table it may fill: every instruction, up to MAX_PLAYERS seats
DoJoinTableOne ==
  \E p \in SessionAuthorities, t \in TableAddrs, b \in BuyInArgs : JoinTable(p, t, b)

NextOne ==
  \/ DoCreateTable
  \/ DoJoinTableOne
  \/ DoCreateSession
  \/ DoAction
  \/ DoLeaveTable
  \/ DoRevokeSession
  \/ Tick

SpecOne == Init /\ [][NextOne]_vars

\* ------------------------------------------------------------------ helpers
LiveTables == {t \in TableAddrs : tables[t] # None}
LiveSessions == {s \in SessionAddrs : sessions[s] # None}
Tbl(t) == Unwrap(tables[t])
Ses(s) == Unwrap(sessions[s])
Occupied(table) == {i \in Seats : table.players[i] # None}
Slot(table, i) == Unwrap(table.players[i])

RECURSIVE SeatSeqFrom(_, _)
SeatSeqFrom(table, i) ==
  IF i = MAX_PLAYERS THEN <<>>
  ELSE IF table.players[i] # None THEN <<Slot(table, i)>> \o SeatSeqFrom(table, i + 1)
  ELSE SeatSeqFrom(table, i + 1)
\* the seated players in seat order
SeatSeq(table) == SeatSeqFrom(table, 0)

RemoveAt(seq, k) == [i \in 1 .. (Len(seq) - 1) |-> IF i < k THEN seq[i] ELSE seq[i + 1]]

TypeOK ==
  /\ now \in 0 .. MaxTime
  /\ \A t \in LiveTables : Tbl(t).pot \in 0 .. (U64Mod - 1)

\* ------------------------------------------------------------------- claims

\* C1: in every reachable state the table's player_count equals the number of
\* occupied (Some) entries among the 9 entries of players.
C1_PlayerCountMatches ==
  \A t \in LiveTables : Tbl(t).player_count = Cardinality(Occupied(Tbl(t)))

\* a table that still seats somebody after a player has left
C1_Witness ==
  \E t \in LiveTables : last = "leave_table" /\ Tbl(t).player_count >= 1

\* C2: right after every successful leave_table the occupied seats are exactly
\* the indices [0, player_count), every later index is empty, and the remaining
\* players are the players of before, one removed, in the same order.
C2_LeaveCompacts ==
  \A t \in LiveTables, p \in Pubkeys :
    LET o == LeaveTableOutcome(p, t)
        before == Tbl(t)
        after == Unwrap(o.tables[t])
    IN o.err = Ok =>
         /\ \A i \in Seats : (i < after.player_count) <=> (after.players[i] # None)
         /\ \E k \in 1 .. Len(SeatSeq(before)) :
              /\ SeatSeq(before)[k].authority = p
              /\ SeatSeq(after) = RemoveAt(SeatSeq(before), k)

\* a leave that took a player out from before other players
C2_Witness ==
  \E t \in LiveTables :
    /\ last = "leave_table"
    /\ Tbl(t).player_count >= 2
    /\ \E p \in Authorities :
         /\ find_player(Tbl(t), p) > 0
         /\ LeaveTableOutcome(p, t).err = Ok

\* C3: join_table never succeeds at player_count = 9 (TableFull) nor with a
\* buy_in below min_buy_in or above max_buy_in (InvalidBuyIn, or TableFull when
\* the table is full as well); player_count never exceeds 9.
C3_JoinGuards ==
  \A t \in LiveTables :
    /\ Tbl(t).player_count <= MAX_PLAYERS
    /\ \A p \in Pubkeys, b \in BuyInArgs :
         LET o == JoinTableOutcome(p, t, b)
             full == Tbl(t).player_count = MAX_PLAYERS
             outOfRange == b < Tbl(t).min_buy_in \/ b > Tbl(t).max_buy_in
         IN /\ full => o.err = "TableFull" /\ o.tables = tables
            /\ (outOfRange /\ ~full) => o.err = "InvalidBuyIn" /\ o.tables = tables

\* a full table, filled by join_table, to which a join in range is sent
C3_Witness ==
  \E t \in LiveTables :
    /\ last = "join_table"
    /\ Tbl(t).player_count = MAX_PLAYERS
    /\ \E p \in Authorities : JoinTableOutcome(p, t, Tbl(t).min_buy_in).err = "TableFull"

\* the seat find_player resolves for a session's authority is folded
SeatFolded(t, s) ==
  LET i == find_player(Tbl(t), Ses(s).authority)
  IN i # -1 /\ ~Slot(Tbl(t), i).in_hand

\* C4: action never succeeds, and changes no chips, pot or in_hand flag, when
\* the current time is at or past the session's expiry, when the signer is not
\* the session's ephemeral_signer, or when the seat resolved for the session's
\* authority has in_hand false.
C4_ActionGuards ==
  \A t \in LiveTables, s \in LiveSessions, k \in Pubkeys, g \in GameActions, c \in BOOLEAN :
    LET o == ActionOutcome(k, t, s, g, c)
    IN (now >= Ses(s).expiry \/ k # Ses(s).ephemeral_signer \/ SeatFolded(t, s))
         => o.err # Ok /\ o.tables = tables /\ o.sessions = sessions

\* after a Fold: an unexpired session, used by its own key, whose seat is folded
C4_Witness ==
  \E t \in LiveTables, s \in LiveSessions :
    /\ last = "action"
    /\ now < Ses(s).expiry
    /\ SeatFolded(t, s)
    /\ ActionOutcome(Ses(s).ephemeral_signer, t, s, Call, TRUE).err = "NotInHand"

\* the four preconditions of action hold for session s at table t, signed by k
ActionAdmitted(k, t, s) ==
  /\ now < Ses(s).expiry
  /\ k = Ses(s).ephemeral_signer
  /\ find_player(Tbl(t), Ses(s).authority) # -1
  /\ ~SeatFolded(t, s)
  /\ ActionSeedsCheck(Ses(s), s, t) = Ok

BetsAndRaises == {g \in GameActions : g.kind \in {"Bet", "Raise"}}

\* C5: Bet(amount) and Raise(amount) fail with InsufficientChips whenever amount
\* exceeds the acting seat's chips, and otherwise decrease that seat's chips by
\* exactly amount and increase pot by exactly amount; no seat's chips go below 0.
C5_BetRaiseExact ==
  /\ \A t \in LiveTables : \A i \in Occupied(Tbl(t)) : Slot(Tbl(t), i).chips >= 0
  /\ \A t \in LiveTables, s \in LiveSessions, k \in Pubkeys, g \in BetsAndRaises, c \in BOOLEAN :
       ActionAdmitted(k, t, s) =>
         LET o == ActionOutcome(k, t, s, g, c)
             i == find_player(Tbl(t), Ses(s).authority)
             after == Unwrap(o.tables[t])
         IN IF g.amount > Slot(Tbl(t), i).chips
            THEN o.err = "InsufficientChips"
            ELSE /\ o.err = Ok
                 /\ Slot(after, i).chips = Slot(Tbl(t), i).chips - g.amount
                 /\ after.pot = Tbl(t).pot + g.amount

\* C6: no two occupied seats of a table hold the same authority.
C6_UniqueAuthority ==
  \A t \in LiveTables : \A i \in Occupied(Tbl(t)), j \in Occupied(Tbl(t)) :
    i # j => Slot(Tbl(t), i).authority # Slot(Tbl(t), j).authority

\* the outcomes of every instruction that can be sent in the current state
AllOutcomes ==
  {CreateTableOutcome(c, a.small_blind, a.big_blind, a.min_buy_in, a.max_buy_in) :
     c \in Creators, a \in TableArgs}
  \cup {JoinTableOutcome(p, t, b) : p \in Pubkeys, t \in TableAddrs, b \in BuyInArgs}
  \cup {CreateSessionOutcome(x[1], x[2], x[3], x[4]) :
          x \in Authorities \X TableAddrs \X EphemeralKeys \X ExpiryArgs}
  \cup {ActionOutcome(x[1], x[2], x[3], x[4], x[5]) :
          x \in Pubkeys \X TableAddrs \X SessionAddrs \X GameActions \X BOOLEAN}
  \cup {LeaveTableOutcome(p, t) : p \in Pubkeys, t \in TableAddrs}
  \cup {RevokeSessionOutcome(a, s) : a \in Pubkeys, s \in SessionAddrs}

\* the errors of the program
ProgramErrors ==
  {"InvalidTableState", "TableFull", "InvalidBuyIn", "SessionExpired", "InvalidSigner",
   "PlayerNotFound", "NotInHand", "InsufficientChips"}

\* C7: every instruction that returns an error leaves the table record and the
\* set of session records exactly as they were.  Every handler returns its
\* errors before it has written anything, but for create_session, which has
\* filled the new session account when it fails with PlayerNotFound; that
\* account is dropped with the failed instruction, so a create_session that
\* fails with PlayerNotFound leaves no session record behind and no seat's
\* session_key changed.
C7_ErrorsChangeNothing ==
  /\ \A o \in AllOutcomes : o.err # Ok => o.tables = tables /\ o.sessions = sessions
  /\ \A t \in LiveTables :
       /\ \A p \in Pubkeys, b \in BuyInArgs :
            LET r == join_table(Tbl(t), p, b)
            IN r.err \in ProgramErrors => r.table = Tbl(t)
       /\ \A p \in Pubkeys :
            LET r == leave_table(Tbl(t), p)
            IN r.err \in ProgramErrors => r.table = Tbl(t)
       /\ \A a \in Authorities, k \in EphemeralKeys, e \in ExpiryArgs :
            LET r == create_session(Tbl(t), t, ZeroSession, a, k, e, now)
                o == CreateSessionOutcome(a, t, k, e)
            IN /\ r.err \in ProgramErrors =>
                    /\ r.table = Tbl(t)
                    /\ r.err # "PlayerNotFound" => r.session = ZeroSession
               /\ o.err = "PlayerNotFound" =>
                    /\ r.session # ZeroSession
                    /\ o.sessions[SessionPda(a, t)] = None
                    /\ \A i \in Occupied(Tbl(t)) :
                         Slot(Unwrap(o.tables[t]), i).session_key = Slot(Tbl(t), i).session_key
       /\ \A s \in LiveSessions, k \in Pubkeys, g \in GameActions, c \in BOOLEAN :
            LET r == action(Tbl(t), Ses(s), k, g, now, c)
            IN r.err \in ProgramErrors => r.table = Tbl(t)
  /\ \A s \in LiveSessions, a \in Pubkeys :
       LET r == revoke_session(Ses(s), a)
       IN r.err \in ProgramErrors => r.session = Ses(s)

\* a full table with a live session: join_table gives TableFull, create_session
\* by an authority without a seat writes the session and then fails, and the
\* seated authority's key gets InsufficientChips for a Bet above its chips
C7_Witness ==
  \E t \in LiveTables, s \in LiveSessions, a \in Authorities, k \in EphemeralKeys,
     e \in ExpiryArgs :
    /\ Tbl(t).player_count = MAX_PLAYERS
    /\ \A p \in Pubkeys, b \in BuyInArgs : JoinTableOutcome(p, t, b).err = "TableFull"
    /\ CreateSessionOutcome(a, t, k, e).err = "PlayerNotFound"
    /\ create_session(Tbl(t), t, ZeroSession, a, k, e, now).session.expiry = e
    /\ LeaveTableOutcome(a, t).err = "PlayerNotFound"
    /\ ActionOutcome(Ses(s).ephemeral_signer, t, s, Bet(MaxAmountArg), TRUE).err
         = "InsufficientChips"
    /\ ActionOutcome(a, t, s, Call, TRUE).err = "InvalidSigner"

\* C8: once revoke_session has succeeded for a session key, a further
\* revoke_session on that key fails because the record is absent, until a
\* create_session has put a record there again.
C8_RevokeOnce ==
  /\ [](\A a \in Pubkeys, s \in SessionAddrs :
          LET o == RevokeSessionOutcome(a, s)
          IN /\ o.err = Ok => o.sessions[s] = None
             /\ sessions[s] = None => o.err = "AccountNotInitialized")
  /\ [][\A s \in SessionAddrs :
          (sessions[s] = None /\ sessions'[s] # None) => last' = "create_session"]_vars

\* a session was revoked and its record is gone
C8_Witness ==
  \E t \in LiveTables, a \in Authorities :
    /\ last = "revoke_session"
    /\ sessions[SessionPda(a, t)] = None
    /\ find_player(Tbl(t), a) # -1
    /\ Slot(Tbl(t), find_player(Tbl(t), a)).session_key # Default

\* C9: the pot never decreases: after every successful instruction of any kind
\* the pot is greater than or equal to the pot before it.
C9_PotMonotone ==
  \A o \in AllOutcomes, t \in LiveTables :
    o.err = Ok => Unwrap(o.tables[t]).pot >= Tbl(t).pot

\* C10: at most one live Session record per (authority, table) pair; a
\* create_session by an authority that has a live session for the table is
\* rejected, and a session record goes away only by revoke_session.
C10_OneSessionPerPair ==
  /\ [](/\ \A s1 \in LiveSessions, s2 \in LiveSessions :
             (Ses(s1).authority = Ses(s2).authority /\ Ses(s1).table = Ses(s2).table)
               => s1 = s2
        /\ \A s \in LiveSessions, k \in EphemeralKeys, e \in ExpiryArgs :
             Ses(s).table \in LiveTables =>
               CreateSessionOutcome(Ses(s).authority, Ses(s).table, k, e).err
                 = "AccountAlreadyInUse")
  /\ [][\A s \in SessionAddrs :
          (sessions[s] # None /\ sessions'[s] = None) => last' = "revoke_session"]_vars

\* two authorities each hold a session at the table, the later one just created
C10_Witness ==
  \E t \in LiveTables :
    /\ last = "create_session"
    /\ \A a \in Authorities : sessions[SessionPda(a, t)] # None

\* the configuration a table was created with
Config(table) ==
  <<table.creator, table.small_blind, table.big_blind, table.min_buy_in, table.max_buy_in>>

\* C11: no instruction changes the table's state after create_table: it is
\* WaitingForPlayers in every reachable state, so join_table never fails with
\* InvalidTableState; creator, small_blind, big_blind, min_buy_in and max_buy_in
\* are never changed after creation either.
C11_StateAndConfigFixed ==
  /\ [](\A t \in LiveTables :
          /\ Tbl(t).state = WaitingForPlayers
          /\ \A p \in Pubkeys, b \in BuyInArgs :
               JoinTableOutcome(p, t, b).err # "InvalidTableState")
  /\ [][\/ UNCHANGED tables
        \/ \A t \in LiveTables :
             /\ tables'[t] # None
             /\ Unwrap(tables'[t]).state = Tbl(t).state
             /\ Config(Unwrap(tables'[t])) = Config(Tbl(t))]_vars

\* a table that has been played at (the pot is not empty), on which a second
\* create_table with other limits is attempted
C11_Witness ==
  \E t \in LiveTables, a \in TableArgs :
    /\ last = "action"
    /\ Tbl(t).pot > 0
    /\ a.min_buy_in # Tbl(t).min_buy_in
    /\ CreateTableOutcome(Tbl(t).creator, a.small_blind, a.big_blind,
                          a.min_buy_in, a.max_buy_in).err = "AccountAlreadyInUse"

\* C12: a successful join_table writes the new seat at the index equal to the
\* player_count of before, which was empty, with authority = caller, chips =
\* buy_in, in_hand = true and the default session key, adds exactly 1 to
\* player_count, and leaves every other seat and the pot unchanged.
C12_JoinAppends ==
  \A t \in LiveTables, p \in Pubkeys, b \in BuyInArgs :
    LET o == JoinTableOutcome(p, t, b)
        before == Tbl(t)
        after == Unwrap(o.tables[t])
        seat == before.player_count
    IN o.err = Ok =>
         /\ before.players[seat] = None
         /\ after.players[seat] = Some(PlayerSlot(p, Default, b, TRUE))
         /\ after.player_count = before.player_count + 1
         /\ \A i \in Seats \ {seat} : after.players[i] = before.players[i]
         /\ after.pot = before.pot
         /\ after = [before EXCEPT !.players[seat] = after.players[seat],
                                   !.player_count = after.player_count]

\* a join accepted at a table that already seats a player who has played
C12_Witness ==
  \E t \in LiveTables, p \in Authorities :
    /\ Tbl(t).player_count >= 1
    /\ Tbl(t).pot > 0
    /\ Slot(Tbl(t), 0).session_key # Default
    /\ JoinTableOutcome(p, t, Tbl(t).min_buy_in).err = Ok

\* the seats of a table that hold authority p
SeatsOf(table, p) == {i \in Occupied(table) : Slot(table, i).authority = p}

\* C13: leave_table fails with PlayerNotFound exactly when no occupied seat has
\* the caller's authority; on success it removes the lowest-index seat of the
\* caller and nothing else: player_count drops by exactly 1, the seats before
\* the removed index are untouched, the seats after it move down by one with
\* authority, session_key, chips and in_hand unchanged, and the pot is unchanged.
C13_LeaveFrame ==
  \A t \in LiveTables, p \in Pubkeys :
    LET o == LeaveTableOutcome(p, t)
        before == Tbl(t)
        after == Unwrap(o.tables[t])
        mine == SeatsOf(before, p)
    IN /\ (o.err = "PlayerNotFound") <=> (mine = {})
       /\ (o.err # Ok) <=> (mine = {})
       /\ o.err = Ok =>
            LET r == CHOOSE i \in mine : \A j \in mine : i <= j
            IN /\ after.player_count = before.player_count - 1
               /\ \A i \in Seats :
                    after.players[i] = IF i < r THEN before.players[i]
                                       ELSE IF i + 1 \in Seats THEN before.players[i + 1]
                                       ELSE None
               /\ after.pot = before.pot
               /\ after = [before EXCEPT !.players = after.players,
                                         !.player_count = after.player_count]

\* a leave of a player seated behind another one, at a table with a pot, next to
\* a leave by somebody who is not seated
C13_Witness ==
  \E t \in LiveTables, p \in Authorities, q \in Authorities :
    /\ Tbl(t).pot > 0
    /\ find_player(Tbl(t), p) > 0
    /\ LeaveTableOutcome(p, t).err = Ok
    /\ SeatsOf(Tbl(t), q) # {}
    /\ \E x \in Pubkeys : LeaveTableOutcome(x, t).err = "PlayerNotFound"

\* the preconditions of action that session s, signer k and action g violate at
\* table t, in the order the claim gives
Violated(k, t, s, g) ==
  LET i == find_player(Tbl(t), Ses(s).authority)
  IN <<now >= Ses(s).expiry,
       k # Ses(s).ephemeral_signer,
       i = -1,
       i # -1 /\ ~Slot(Tbl(t), i).in_hand,
       i # -1 /\ g.kind \in {"Bet", "Raise"} /\ g.amount > Slot(Tbl(t), i).chips>>

ActionErrors ==
  <<"SessionExpired", "InvalidSigner", "PlayerNotFound", "NotInHand", "InsufficientChips">>

\* C14: action checks its preconditions in a fixed order: when several are
\* violated at once the error is that of the first violated one, in the order
\* SessionExpired, InvalidSigner, PlayerNotFound, NotInHand, and
\* InsufficientChips (Bet and Raise) only after the four others pass.
C14_ErrorOrder ==
  \A t \in LiveTables, s \in LiveSessions, k \in Pubkeys, g \in GameActions, c \in BOOLEAN :
    ActionSeedsCheck(Ses(s), s, t) = Ok =>
      LET o == ActionOutcome(k, t, s, g, c)
          v == Violated(k, t, s, g)
          bad == {n \in 1 .. 5 : v[n]}
      IN IF bad = {}
         THEN o.err \notin {ActionErrors[n] : n \in 1 .. 5}
         ELSE o.err = ActionErrors[CHOOSE n \in bad : \A m \in bad : n <= m]

\* an expired session whose seat is folded and has too few chips, used with a
\* wrong key: four preconditions are violated at once
C14_Witness ==
  \E t \in LiveTables, s \in LiveSessions, k \in Pubkeys :
    /\ ActionSeedsCheck(Ses(s), s, t) = Ok
    /\ Violated(k, t, s, Bet(1)) = <<TRUE, TRUE, FALSE, TRUE, TRUE>>
    /\ ActionOutcome(k, t, s, Bet(1), TRUE).err = "SessionExpired"

\* C15: create_session succeeds only if expiry is strictly after the current
\* time (else SessionExpired) and the caller holds a seat at the table (else
\* PlayerNotFound); on success the new session has expiry > created_at and the
\* caller's seat has session_key = ephemeral_signer; every live session record
\* has expiry > created_at.
C15_CreateSessionGuards ==
  /\ \A s \in LiveSessions : Ses(s).expiry > Ses(s).created_at
  /\ \A t \in LiveTables, a \in Pubkeys, k \in EphemeralKeys, e \in ExpiryArgs :
       LET o == CreateSessionOutcome(a, t, k, e)
           s == SessionPda(a, t)
           i == find_player(Tbl(t), a)
       IN /\ o.err = Ok =>
               /\ e > now
               /\ i # -1
               /\ o.sessions[s] = Some([authority |-> a, ephemeral_signer |-> k, table |-> t,
                                        created_at |-> now, expiry |-> e])
               /\ Unwrap(o.sessions[s]).expiry > Unwrap(o.sessions[s]).created_at
               /\ Slot(Unwrap(o.tables[t]), i).session_key = k
          /\ sessions[s] = None =>
               o.err = IF ~(e > now) THEN "SessionExpired"
                       ELSE IF i = -1 THEN "PlayerNotFound"
                       ELSE Ok

\* a session was just created and its key is on its authority's seat; another
\* seated authority without a session asks for an expiry equal to the current time
C15_Witness ==
  \E t \in LiveTables, s \in LiveSessions, a \in Authorities, k \in EphemeralKeys :
    /\ last = "create_session"
    /\ Ses(s).table = t
    /\ find_player(Tbl(t), Ses(s).authority) # -1
    /\ Slot(Tbl(t), find_player(Tbl(t), Ses(s).authority)).session_key = Ses(s).ephemeral_signer
    /\ find_player(Tbl(t), a) # -1
    /\ sessions[SessionPda(a, t)] = None
    /\ CreateSessionOutcome(a, t, k, now).err = "SessionExpired"

\* C16: a successful AllIn adds the acting seat's entire chips to the pot, sets
\* that seat's chips to 0 and leaves in_hand true; a seat in the hand with chips 0
\* gets InsufficientChips for every Bet(amount) or Raise(amount) with amount >= 1.
C16_AllInExact ==
  \A t \in LiveTables, s \in LiveSessions, k \in Pubkeys, c \in BOOLEAN :
    ActionAdmitted(k, t, s) =>
      LET o == ActionOutcome(k, t, s, AllIn, c)
          i == find_player(Tbl(t), Ses(s).authority)
          after == Unwrap(o.tables[t])
      IN /\ o.err = Ok =>
              /\ after.pot = Tbl(t).pot + Slot(Tbl(t), i).chips
              /\ Slot(after, i).chips = 0
              /\ Slot(after, i).in_hand
         /\ Slot(Tbl(t), i).chips = 0 =>
              \A g \in BetsAndRaises, d \in BOOLEAN :
                g.amount >= 1 => ActionOutcome(k, t, s, g, d).err = "InsufficientChips"

\* C17: revoke_session succeeds only when the caller is the session's authority
\* (else InvalidSigner); a successful revoke removes the session and leaves the
\* table, the seat's cached session_key included, unchanged; no action succeeds
\* through an absent session, an authority's actions at a table all go through
\* the one session address of that pair, and that address gets a session again
\* only by a successful create_session of that authority.
C17_RevokeEndsSession ==
  /\ [](/\ \A s \in LiveSessions, a \in Pubkeys :
             LET o == RevokeSessionOutcome(a, s)
             IN /\ a # Ses(s).authority => o.err = "InvalidSigner"
                /\ o.err = Ok =>
                     /\ a = Ses(s).authority
                     /\ o.tables = tables
                     /\ o.sessions = [sessions EXCEPT ![s] = None]
        /\ \A s \in SessionAddrs, t \in TableAddrs, k \in Pubkeys, g \in GameActions,
              c \in BOOLEAN :
             ActionOutcome(k, t, s, g, c).err = Ok =>
               s \in LiveSessions /\ s = SessionPda(Ses(s).authority, t))
  /\ [][\/ UNCHANGED sessions
        \/ \A a \in Pubkeys, t \in TableAddrs :
             LET s == SessionPda(a, t)
             IN (sessions[s] = None /\ sessions'[s] # None) =>
                  \E k \in EphemeralKeys, e \in ExpiryArgs :
                    LET o == CreateSessionOutcome(a, t, k, e)
                    IN o.err = Ok /\ tables' = o.tables /\ sessions' = o.sessions]_vars

\* just after a revoke: a seat still caches the key of a session that is gone,
\* and an action signed by that key is rejected
C17_Witness ==
  \E t \in LiveTables : \E i \in Occupied(Tbl(t)) :
    LET s == SessionPda(Slot(Tbl(t), i).authority, t)
    IN /\ last = "revoke_session"
       /\ Slot(Tbl(t), i).session_key # Default
       /\ Slot(Tbl(t), i).in_hand
       /\ sessions[s] = None
       /\ ActionOutcome(Slot(Tbl(t), i).session_key, t, s, Call, TRUE).err
            = "AccountNotInitialized"

\* chips held by the seats of a table
RECURSIVE ChipsFrom(_, _)
ChipsFrom(table, i) ==
  IF i >= MAX_PLAYERS THEN 0
  ELSE (IF table.players[i] = None THEN 0 ELSE Slot(table, i).chips) + ChipsFrom(table, i + 1)

SeatedChips(table) == ChipsFrom(table, 0)

\* C18: chips are never created: a successful join_table adds exactly its buy-in
\* to (pot + chips of the seated players), a successful leave_table adds nothing
\* to it, and a successful Fold, Call, Bet, Raise or AllIn leaves it unchanged,
\* so it never exceeds the sum of the buy-ins of the successful joins.
C18_ChipsConserved ==
  \A t \in LiveTables :
    LET total(table) == table.pot + SeatedChips(table)
    IN /\ \A p \in Pubkeys, b \in BuyInArgs :
            LET o == JoinTableOutcome(p, t, b)
            IN o.err = Ok => total(Unwrap(o.tables[t])) = total(Tbl(t)) + b
       /\ \A p \in Pubkeys :
            LET o == LeaveTableOutcome(p, t)
            IN o.err = Ok => total(Unwrap(o.tables[t])) <= total(Tbl(t))
       /\ \A s \in SessionAddrs, k \in Pubkeys, g \in GameActions, c \in BOOLEAN :
            LET o == ActionOutcome(k, t, s, g, c)
            IN o.err = Ok => total(Unwrap(o.tables[t])) = total(Tbl(t))

\* C19: a session does not outlive the seat it was created for.  create_session
\* records the session's key on the seat it was created for (session_key), and a
\* seat taken later starts with session_key unset; so an action succeeds only
\* through a session whose key is recorded on the seat it acts on, never through
\* a session created before its authority left and joined again.
C19_SessionBoundToSeat ==
  \A t \in LiveTables, s \in LiveSessions, k \in Pubkeys, g \in GameActions, c \in BOOLEAN :
    ActionOutcome(k, t, s, g, c).err = Ok =>
      Slot(Tbl(t), find_player(Tbl(t), Ses(s).authority)).session_key
        = Ses(s).ephemeral_signer

\* authorities whose resolved seat at table t is folded
FoldedAt(t) ==
  {a \in Authorities :
     find_player(Tbl(t), a) # -1 /\ ~Slot(Tbl(t), find_player(Tbl(t), a)).in_hand}

\* a folded seat stays folded until a leave_table by its authority succeeds
StaysFolded ==
  \/ UNCHANGED tables
  \/ \A t \in LiveTables : \A a \in FoldedAt(t) :
       \/ a \in (FoldedAt(t))'
       \/ LET o == LeaveTableOutcome(a, t)
          IN o.err = Ok /\ tables' = o.tables /\ sessions' = o.sessions

\* C20 as stated: Fold is irreversible while seated: after a successful Fold by
\* an authority, that seat's in_hand stays false and every later action by that
\* authority (any variant) fails with NotInHand and changes neither chips nor
\* pot, until a leave_table by that authority succeeds.
C20_FoldThenNotInHand ==
  /\ [](\A t \in LiveTables, s \in LiveSessions, g \in GameActions, c \in BOOLEAN :
          (ActionSeedsCheck(Ses(s), s, t) = Ok /\ Ses(s).authority \in FoldedAt(t)) =>
            LET o == ActionOutcome(Ses(s).ephemeral_signer, t, s, g, c)
            IN o.err = "NotInHand" /\ o.tables = tables /\ o.sessions = sessions)
  /\ [][StaysFolded]_vars

\* C20 as amended: while an authority's seat is folded, every action through its
\* session, whatever the variant and the signer, fails and changes neither chips
\* nor pot; the error is NotInHand when the session is unexpired and the signer
\* is its ephemeral key, and that of the earlier check otherwise; the seat stays
\* folded until a leave_table by that authority succeeds.
C20_FoldIrreversible ==
  /\ [](\A t \in LiveTables, s \in LiveSessions, k \in Pubkeys, g \in GameActions,
           c \in BOOLEAN :
          (ActionSeedsCheck(Ses(s), s, t) = Ok /\ Ses(s).authority \in FoldedAt(t)) =>
            LET o == ActionOutcome(k, t, s, g, c)
            IN /\ o.tables = tables /\ o.sessions = sessions
               /\ o.err = IF now >= Ses(s).expiry THEN "SessionExpired"
                          ELSE IF k # Ses(s).ephemeral_signer THEN "InvalidSigner"
                          ELSE "NotInHand")
  /\ [][StaysFolded]_vars

\* after a Fold: the folded seat still has chips and an unexpired session, and its
\* own key gets NotInHand for AllIn, Call and a Bet it could afford
C20_Witness ==
  \E t \in LiveTables, s \in LiveSessions :
    LET a == Ses(s).authority
        k == Ses(s).ephemeral_signer
    IN /\ last = "action"
       /\ ActionSeedsCheck(Ses(s), s, t) = Ok
       /\ a \in FoldedAt(t)
       /\ Slot(Tbl(t), find_player(Tbl(t), a)).chips >= 1
       /\ Tbl(t).pot > 0
       /\ \A g \in {AllIn, Call, Bet(1), Fold} :
            ActionOutcome(k, t, s, g, TRUE).err = "NotInHand"

====
